---- MODULE Spec2Model ----
(***************************************************************************)
(* TroopJS core: the event emitter (src/event/emitter.js) and the pub/sub  *)
(* hub built on it (src/pubsub/hub.js), as a state machine.                *)
(*                                                                         *)
(* JavaScript runs one call at a time.  A call of on/off/emit/reemit is    *)
(* one action; a handler callback returns a value or a future, and the     *)
(* settlement of that future (when(value, next) running its continuation)  *)
(* is a separate action, so other calls, a handler's own nested calls      *)
(* included, interleave between an invocation and its settlement.          *)
(***************************************************************************)
EXTENDS Integers, Sequences, FiniteSets, TLC

\* ------------------------------------------------------------------ bounds
\* on() calls that register a handler
MaxHandlers == 2
\* emit/reemit calls that reach a runner
MaxDispatch == 2
\* emit/reemit calls where a dispatch, a failed one and its replay follow
\* one another
MaxChained == 3

\* ------------------------------------------------------- JavaScript values
\* A value is tagged; v holds a number (one element), an array's elements,
\* or nothing.
UNDEFINED == [t |-> "undefined", v |-> <<>>]
Num(n) == [t |-> "number", v |-> <<n>>]
Arr(s) == [t |-> "array", v |-> s]

\* Strings that the code matches with regular expressions are sequences of
\* one-character strings.
WordChars ==
  {"a","b","c","d","e","f","g","h","i","j","k","l","m","n","o","p","q","r",
   "s","t","u","v","w","x","y","z","0","1","2","3","4","5","6","7","8","9","_",
   "A","B","C","D","E","F","G","H","I","J","K","L","M","N","O","P","Q","R",
   "S","T","U","V","W","X","Y","Z"}

STR_evt == <<"e","v","t">>
STR_sequence == <<"s","e","q","u","e","n","c","e">>
STR_pipeline == <<"p","i","p","e","l","i","n","e">>
DEFAULT == <<"d","e","f","a","u","l","t">>
STR_bogus == <<"b","o","g","u","s">>
STR_toString == <<"t","o","S","t","r","i","n","g">>
\* An event name that holds a colon itself.
STR_e_vt == <<"e",":","v","t">>

Max(S) == CHOOSE x \in S : \A y \in S : y <= x

\* RE_RUNNER = /^(.+)(?::(\w+))/ : the greedy (.+) runs to the last colon that
\* has a character before it and a word character after it; (\w+) is the
\* longest run of word characters after that colon.  <<>> is no match (null).
RunnerColons(s) ==
  {i \in 2..(Len(s) - 1) :
     /\ s[i] = ":"
     /\ s[i + 1] \in WordChars
     /\ \A k \in 1..(i - 1) : s[k] # "\n"}

WordRunEnd(s, i) ==
  CHOOSE j \in i..Len(s) :
    /\ \A k \in i..j : s[k] \in WordChars
    /\ (j = Len(s) \/ s[j + 1] \notin WordChars)

\* The expression with a lazy first group, /^(.+?)(?::(\w+))/: the split is
\* at the first such colon.
RE_RUNNER_exec_lazy(s) ==
  IF RunnerColons(s) = {} THEN <<>>
  ELSE LET i == CHOOSE x \in RunnerColons(s) : \A y \in RunnerColons(s) : x <= y
       IN <<SubSeq(s, 1, i - 1), SubSeq(s, i + 1, WordRunEnd(s, i + 1))>>

RE_RUNNER_exec(s) ==
  IF RunnerColons(s) = {} THEN <<>>
  ELSE LET i == Max(RunnerColons(s))
       IN <<SubSeq(s, 1, i - 1), SubSeq(s, i + 1, WordRunEnd(s, i + 1))>>

\* ------------------------------------------------------------------ inputs
\* Callbacks and contexts a caller passes; "none" is an absent (undefined)
\* argument.
Callbacks == {"f", "g"}
Contexts == {"c1"}
NONE == "none"
\* The <<context, callback>> pairs given to on, and to off and reemit.
HandlerKinds == {<<"c1", "f">>, <<NONE, "g">>}
Filters == {<<NONE, NONE>>, <<"c1", NONE>>, <<NONE, "g">>}
\* Event names given to on/off, and event strings given to emit/reemit.
EventNames == {STR_evt}
SuffixNames == {STR_e_vt}
EventStrings == {STR_evt, STR_evt \o <<":">> \o STR_sequence}
HubStrings == {STR_evt, STR_evt \o <<":">> \o STR_pipeline}
\* Event strings with runner suffixes of every kind: none, a runner of the
\* table, a name that is nowhere, a name that only Object.prototype has, a
\* suffix after a second colon, and a suffix followed by other characters.
SuffixStrings ==
  {STR_evt, STR_evt \o <<":">> \o STR_sequence, STR_evt \o <<":">> \o STR_bogus,
   STR_evt \o <<":">> \o STR_toString, STR_e_vt \o <<":">> \o STR_sequence,
   STR_evt \o <<":">> \o STR_sequence \o <<"-", "x">>}
\* Argument lists passed to emit.
ArgLists == {<<1>>, <<2>>}
\* What a handler's returned value or future resolves to.
RetVals == {UNDEFINED, Num(5), Arr(<<3, 4>>)}

\* ------------------------------------------------------------------- state
VARIABLES
  runners,     \* me[RUNNERS]: runner name -> runner function
  handlers,    \* me[HANDLERS]: event name -> chain {handled, head, tail, memory}
  heap,        \* the handler objects, in creation order: {callback, context, handled, next}
  dispatches,  \* the runner activations, in call order
  phase,       \* context[PHASE] of every context object
  subscribed,  \* history: per event, the handlers subscribed and not unsubscribed, in subscription order
  lastDone,    \* history: per event, the activation that exhausted its candidates last
  ret          \* how the last call of on/off/emit/reemit returned

vars == <<runners, handlers, heap, dispatches, phase, subscribed, lastDone, ret>>

\* No handler object: an absent head, tail or next property.
NoHandler == 0
\* An absent handled property of a handler.
NoStamp == -1

Subs(event) == IF event \in DOMAIN subscribed THEN subscribed[event] ELSE <<>>
LastDone(event) == IF event \in DOMAIN lastDone THEN lastDone[event] ELSE 0

Put(f, k, val) == [x \in DOMAIN f \cup {k} |-> IF x = k THEN val ELSE f[x]]

Range(s) == {s[i] : i \in 1..Len(s)}

\* The runner tables.
EmitterRunners ==
  [n \in {STR_sequence, DEFAULT} |-> "sequence"]

HubRunners ==
  [n \in {STR_pipeline, STR_sequence, DEFAULT} |->
     IF n = STR_sequence THEN "hub_sequence" ELSE "pipeline"]

\* The runner table is an object literal, so a property read on it also finds
\* the members of Object.prototype (toString, and likewise valueOf,
\* constructor, hasOwnProperty, ...).
ObjectPrototype == [n \in {STR_toString} |-> "Object.prototype.toString"]

\* runners[name]: an own property, an inherited one, or undefined.
RunnerLookup(table, name) ==
  IF name \in DOMAIN table THEN table[name]
  ELSE IF name \in DOMAIN ObjectPrototype THEN ObjectPrototype[name]
  ELSE "undefined"

\* The functions of Object.prototype: called as a runner they return at once
\* a value that is no future, and touch neither candidates nor memory.
NotARunner(runner) == runner \in {ObjectPrototype[n] : n \in DOMAIN ObjectPrototype}

\* ------------------------------------------------------------ phases (hub)
STR_alize == <<"a","l","i","z","e">>
STR_initialize == <<"i","n","i","t","i">> \o STR_alize
STR_initialized == STR_initialize \o <<"d">>
STR_initializing == <<"i","n","i","t","i","a","l","i","z","i","n","g">>
STR_finalize == <<"f","i","n">> \o STR_alize
STR_finalized == STR_finalize \o <<"d">>
STR_finalizing == <<"f","i","n","a","l","i","z","i","n","g">>
STR_started == <<"s","t","a","r","t","e","d">>
STR_undefined == <<"u","n","d","e","f","i","n","e","d">>
\* A context without a phase property.
NoPhase == <<>>
\* The phases a context takes in the model, and the phase names considered.
PhaseValues == {NoPhase, STR_initialize, STR_initializing, STR_initialized,
                STR_finalizing, STR_finalized}
PhaseNames == {STR_initialize, STR_initializing, STR_initialized,
               STR_finalize, STR_finalizing, STR_finalized, STR_started, STR_undefined}

\* The expression read as /^(?:initi|fin)aliz(?:ing|ed)$/.
RE_PHASE_test_ing(p) ==
  LET s == IF p = NoPhase THEN STR_undefined ELSE p
  IN \E pre \in {<<"i","n","i","t","i">>, <<"f","i","n">>} :
       \E d \in {<<"i","n","g">>, <<"e","d">>} : s = pre \o <<"a","l","i","z">> \o d

\* RE_PHASE = /^(?:initi|fin)alized?$/ tested against context[PHASE]; test()
\* converts its argument to a string, an absent phase to "undefined".
RE_PHASE_test(p) ==
  LET s == IF p = NoPhase THEN STR_undefined ELSE p
  IN \E pre \in {<<"i","n","i","t","i">>, <<"f","i","n">>} :
       \E d \in {<<>>, <<"d">>} : s = pre \o STR_alize \o d

\* --------------------------------------------------------- the handler list
RECURSIVE Walk(_, _)
\* The handlers reached from h by following next: do { ... } while ((handler = handler[NEXT]))
Walk(hp, h) == IF h = NoHandler THEN <<>> ELSE <<h>> \o Walk(hp, hp[h].next)

\* handlers[event] of a new event: {handled: 0}
NewChain == [handled |-> 0, head |-> NoHandler, tail |-> NoHandler, memory |-> UNDEFINED]

\* peek(event): handlers[event][MEMORY], undefined when either is absent.
peek(event) == IF event \in DOMAIN handlers THEN handlers[event].memory ELSE UNDEFINED

\* The epoch counter of an event's chain; 0 while there is no chain.
Epoch(event) == IF event \in DOMAIN handlers THEN handlers[event].handled ELSE 0

\* off's test keeping a handler only when context and callback both differ.
OffKeeps_both(h, context, callback) ==
  /\ (context # NONE /\ h.context # context)
  /\ (callback # NONE /\ h.callback # callback)

\* off's test: the handler stays when a given context or callback differs.
OffKeeps(h, context, callback) ==
  \/ (context # NONE /\ h.context # context)
  \/ (callback # NONE /\ h.callback # callback)

\* on() creating the event's chain before it looks at the callback.
On_chainFirst(event, context, callback) ==
  IF callback = NONE
  THEN /\ ret' = "no callback provided"
       /\ handlers' = IF event \in DOMAIN handlers THEN handlers
                       ELSE Put(handlers, event, NewChain)
       /\ UNCHANGED <<runners, heap, dispatches, phase, subscribed, lastDone>>
  ELSE
     /\ Len(heap) < MaxHandlers
     /\ LET new == Len(heap) + 1
            handler == [callback |-> callback, context |-> context,
                        handled |-> NoStamp, next |-> NoHandler]
            tail == IF event \in DOMAIN handlers THEN handlers[event].tail ELSE NoHandler
        IN /\ heap' = IF tail # NoHandler
                        THEN Append([heap EXCEPT ![tail].next = new], handler)
                        ELSE Append(heap, handler)
           /\ handlers' = IF event \in DOMAIN handlers
                           THEN [handlers EXCEPT
                                   ![event].head = IF tail # NoHandler THEN @ ELSE new,
                                   ![event].tail = new]
                           ELSE Put(handlers, event, [NewChain EXCEPT !.head = new, !.tail = new])
     /\ subscribed' = Put(subscribed, event, Append(Subs(event), Len(heap) + 1))
     /\ ret' = "ok"
     /\ UNCHANGED <<runners, dispatches, phase, lastDone>>

\* on(event, context, callback)
On(event, context, callback) ==
  IF callback = NONE
  THEN /\ ret' = "no callback provided"
       /\ UNCHANGED <<runners, handlers, heap, dispatches, phase, subscribed, lastDone>>
  ELSE
     /\ Len(heap) < MaxHandlers
     /\ LET new == Len(heap) + 1
            handler == [callback |-> callback, context |-> context,
                        handled |-> NoStamp, next |-> NoHandler]
        IN IF event \in DOMAIN handlers
           THEN LET tail == handlers[event].tail
                IN /\ heap' = IF tail # NoHandler
                                THEN Append([heap EXCEPT ![tail].next = new], handler)
                                ELSE Append(heap, handler)
                   /\ handlers' = [handlers EXCEPT
                                     ![event].head = IF tail # NoHandler THEN @ ELSE new,
                                     ![event].tail = new]
           ELSE /\ heap' = Append(heap, handler)
                /\ handlers' = Put(handlers, event, [NewChain EXCEPT !.head = new, !.tail = new])
     /\ subscribed' = Put(subscribed, event, Append(Subs(event), Len(heap) + 1))
     /\ ret' = "ok"
     /\ UNCHANGED <<runners, dispatches, phase, lastDone>>

RECURSIVE Relink(_, _)
\* tail = tail[NEXT] = handler over the survivors, then delete tail[NEXT]
Relink(hp, keep) ==
  IF Len(keep) = 0 THEN hp
  ELSE IF Len(keep) = 1 THEN [hp EXCEPT ![keep[1]].next = NoHandler]
  ELSE Relink([hp EXCEPT ![keep[1]].next = keep[2]], Tail(keep))

\* off() removing the registry entry of an event left without handlers.
Off_dropsEmptyChain(event, context, callback) ==
  /\ IF event \in DOMAIN handlers /\ handlers[event].head # NoHandler
     THEN LET keep == SelectSeq(Walk(heap, handlers[event].head),
                                LAMBDA h : OffKeeps(heap[h], context, callback))
          IN /\ heap' = Relink(heap, keep)
             /\ handlers' =
                  IF keep # <<>>
                  THEN [handlers EXCEPT ![event].head = keep[1],
                                        ![event].tail = keep[Len(keep)]]
                  ELSE [x \in DOMAIN handlers \ {event} |-> handlers[x]]
     ELSE UNCHANGED <<heap, handlers>>
  /\ subscribed' = IF event \in DOMAIN subscribed
                   THEN [subscribed EXCEPT ![event] =
                           SelectSeq(@, LAMBDA h : OffKeeps(heap[h], context, callback))]
                   ELSE subscribed
  /\ ret' = "ok"
  /\ UNCHANGED <<runners, dispatches, phase, lastDone>>

\* off(event, context, callback)
Off(event, context, callback) ==
  /\ IF event \in DOMAIN handlers /\ handlers[event].head # NoHandler
     THEN LET keep == SelectSeq(Walk(heap, handlers[event].head),
                                LAMBDA h : OffKeeps(heap[h], context, callback))
          IN /\ heap' = Relink(heap, keep)
             /\ handlers' = [handlers EXCEPT
                   ![event].head = IF keep # <<>> THEN keep[1] ELSE NoHandler,
                   ![event].tail = IF keep # <<>> THEN keep[Len(keep)] ELSE NoHandler]
     ELSE UNCHANGED <<heap, handlers>>
  /\ subscribed' = IF event \in DOMAIN subscribed
                   THEN [subscribed EXCEPT ![event] =
                           SelectSeq(@, LAMBDA h : OffKeeps(heap[h], context, callback))]
                   ELSE subscribed
  /\ ret' = "ok"
  /\ UNCHANGED <<runners, dispatches, phase, lastDone>>

\* ----------------------------------------------------------------- runners
\* A runner activation: the closure of sequence()/pipeline() (candidates,
\* candidatesCount, handled, args, results) and the future it returned.
\* state: "pending" (a handler's value is awaited), "resolved", "rejected",
\* "raised" (an exception is propagating out of next), "thrown" (the
\* exception left emit/reemit: no future was returned).
\* History fields: registered (the subscribed handlers at the call), passed
\* (the argument list given to the runner), log (the invocations made),
\* skipped (the candidates passed over), inflight (invoked, not yet settled),
\* quiet (no activation of the event was pending at the call).
NoFailure == [kind |-> "none", h |-> NoHandler]

NewDispatch(op, event, runner, candidates, handled, args, senile, context, callback) ==
  [op |-> op, event |-> event, runner |-> runner, candidates |-> candidates,
   candidatesCount |-> 0, handled |-> handled, args |-> args, results |-> <<>>,
   state |-> "pending", failure |-> NoFailure,
   senile |-> senile, context |-> context, callback |-> callback,
   registered |-> Subs(event), passed |-> args,
   quiet |-> \A j \in 1..Len(dispatches) :
               dispatches[j].event = event => dispatches[j].state # "pending",
   log |-> <<>>, skipped |-> <<>>, inflight |-> {}]

\* candidate[CALLBACK].apply(context, args): apply takes an array, or
\* undefined for no arguments, and throws a TypeError on a number.
ApplyThrows(args) == args.t = "number"
ApplyArguments(args) == args.v

\* (candidate[HANDLED] = handled) === handled && when(candidate[CALLBACK].apply(context, args), next)
\* st is <<activation, heap, handlers>>; throws: whether the callback throws.
Invoke(st, candidate, throws) ==
  LET d == st.d
      hp == [st.heap EXCEPT ![candidate].handled = d.handled]
      entry == [h |-> candidate, args |-> ApplyArguments(d.args),
                live |-> candidate \in Range(Subs(d.event)),
                out |-> "pending", ret |-> UNDEFINED]
  IN IF ApplyThrows(d.args)
     THEN [st EXCEPT !.heap = hp,
                     !.d = [d EXCEPT !.state = "raised",
                                     !.failure = [kind |-> "TypeError", h |-> candidate]]]
     ELSE IF throws
     THEN [st EXCEPT !.heap = hp,
                     !.d = [d EXCEPT !.state = "raised",
                                     !.log = Append(@, [entry EXCEPT !.out = "threw"]),
                                     !.failure = [kind |-> "throw", h |-> candidate]]]
     ELSE [st EXCEPT !.heap = hp,
                     !.d = [d EXCEPT !.log = Append(@, entry),
                                     !.inflight = @ \cup {candidate}]]

\* The runner's future resolving without the memory being stored.
Finish_forgetsMemory(st, memory) == [st EXCEPT !.d.state = "resolved"]

\* The memory stored only by an activation of the chain's newest epoch.
Finish_newestEpoch(st, memory) ==
  IF st.d.handled = st.handlers[st.d.event].handled
  THEN [st EXCEPT !.handlers[st.d.event].memory = memory, !.d.state = "resolved"]
  ELSE [st EXCEPT !.d.state = "resolved"]

\* The memory stored without the runner's future resolving.
Finish_unresolved(st, memory) ==
  [st EXCEPT !.handlers[st.d.event].memory = memory]

\* (handlers[MEMORY] = args) === args && when.resolve(results), and the
\* pipeline's when.resolve(handlers[MEMORY] = args): the candidates are
\* exhausted, the memory is stored and the runner's future resolves.
Finish(st, memory) ==
  [st EXCEPT !.handlers[st.d.event].memory = memory, !.d.state = "resolved"]

\* sequence's next taking its candidates from the end of the list.
sequence_next_backwards(st, result, skip, throws) ==
  LET d == [st.d EXCEPT !.results = IF skip # TRUE THEN Append(@, result) ELSE @,
                        !.candidatesCount = @ + 1]
      st1 == [st EXCEPT !.d = d]
  IN IF d.candidatesCount <= Len(d.candidates)
     THEN Invoke(st1, d.candidates[Len(d.candidates) + 1 - d.candidatesCount], throws)
     ELSE Finish(st1, d.args)

\* sequence's next reading the event's handler list as it is now rather than
\* the candidates taken at the call.
sequence_next_live(st, result, skip, throws) ==
  LET d == [st.d EXCEPT !.results = IF skip # TRUE THEN Append(@, result) ELSE @,
                        !.candidatesCount = @ + 1]
      st1 == [st EXCEPT !.d = d]
      now == Walk(st.heap, st.handlers[d.event].head)
  IN IF d.candidatesCount <= Len(now)
     THEN Invoke(st1, now[d.candidatesCount], throws)
     ELSE Finish(st1, d.args)

\* emitter.js: sequence's next(result, skip)
sequence_next(st, result, skip, throws) ==
  LET d == [st.d EXCEPT !.results = IF skip # TRUE THEN Append(@, result) ELSE @,
                        !.candidatesCount = @ + 1]
      st1 == [st EXCEPT !.d = d]
  IN IF d.candidatesCount <= Len(d.candidates)
     THEN Invoke(st1, d.candidates[d.candidatesCount], throws)
     ELSE Finish(st1, d.args)

\* hub.js: while ((candidate = candidates[candidatesCount++]) && (context =
\* candidate[CONTEXT]) && RE_PHASE.test(context[PHASE])); the candidates
\* passed over, from position `from` on.
InBlockedPhase == [p \in PhaseValues |-> RE_PHASE_test(p)]

Blocked(hp, h) ==
  /\ hp[h].context # NONE
  /\ InBlockedPhase[phase[hp[h].context]]

RECURSIVE SkipBlocked(_, _, _)
SkipBlocked(hp, candidates, from) ==
  IF from <= Len(candidates) /\ Blocked(hp, candidates[from])
  THEN <<candidates[from]>> \o SkipBlocked(hp, candidates, from + 1)
  ELSE <<>>

\* The hub's advance stamping the candidates it passes over.
HubAdvance_stampsSkipped(st, throws, memory) ==
  LET d0 == st.d
      over == SkipBlocked(st.heap, d0.candidates, d0.candidatesCount + 1)
      d == [d0 EXCEPT !.candidatesCount = @ + Len(over) + 1,
                      !.skipped = @ \o over]
      hp == [h \in DOMAIN st.heap |->
               IF h \in Range(over) THEN [st.heap[h] EXCEPT !.handled = d0.handled]
               ELSE st.heap[h]]
      st1 == [st EXCEPT !.d = d, !.heap = hp]
  IN IF d.candidatesCount <= Len(d.candidates)
     THEN Invoke(st1, d.candidates[d.candidatesCount], throws)
     ELSE Finish(st1, memory)

\* The part of next shared by the hub's two runners: pass over the blocked
\* candidates, then invoke the candidate reached or finish with `done`.
HubAdvance(st, throws, memory) ==
  LET d0 == st.d
      over == SkipBlocked(st.heap, d0.candidates, d0.candidatesCount + 1)
      d == [d0 EXCEPT !.candidatesCount = @ + Len(over) + 1,
                      !.skipped = @ \o over]
      st1 == [st EXCEPT !.d = d]
  IN IF d.candidatesCount <= Len(d.candidates)
     THEN Invoke(st1, d.candidates[d.candidatesCount], throws)
     ELSE Finish(st1, memory)

\* The hub's sequence storing every result, the initial step's too.
hub_sequence_next_noSkip(st, result, skip, throws) ==
  LET d == [st.d EXCEPT !.results = Append(@, result)]
  IN HubAdvance([st EXCEPT !.d = d], throws, d.args)

\* hub.js: sequence's next(result, skip)
hub_sequence_next(st, result, skip, throws) ==
  LET d == [st.d EXCEPT !.results = IF skip # TRUE THEN Append(@, result) ELSE @]
  IN HubAdvance([st EXCEPT !.d = d], throws, d.args)

\* hub.js: pipeline's next(result)
pipeline_next(st, result, throws) ==
  LET d == [st.d EXCEPT !.args = IF result # UNDEFINED THEN result ELSE @]
  IN HubAdvance([st EXCEPT !.d = d], throws, d.args)

\* The runner's first step: sequence() returns next(args, true), pipeline()
\* returns next(args).
RunnerStart(st, throws) ==
  CASE st.d.runner = "sequence" -> sequence_next(st, st.d.args, TRUE, throws)
    [] st.d.runner = "hub_sequence" -> hub_sequence_next(st, st.d.args, TRUE, throws)
    [] st.d.runner = "pipeline" -> pipeline_next(st, st.d.args, throws)

\* when(value, next): next runs with what the handler's value resolved to.
RunnerResume(st, result, throws) ==
  CASE st.d.runner = "sequence" -> sequence_next(st, result, FALSE, throws)
    [] st.d.runner = "hub_sequence" -> hub_sequence_next(st, result, FALSE, throws)
    [] st.d.runner = "pipeline" -> pipeline_next(st, result, throws)

\* ----------------------------------------------------------------- actions
\* The state after a step of activation i.  An exception that propagates out
\* of next leaves emit/reemit when the runner was called by it (sync), and
\* rejects the future that when() returned otherwise.
Commit(i, st, sync) ==
  LET d == IF st.d.state = "raised"
           THEN [st.d EXCEPT !.state = IF sync THEN "thrown" ELSE "rejected"]
           ELSE st.d
  IN /\ dispatches' = IF i > Len(dispatches) THEN Append(dispatches, d)
                       ELSE [dispatches EXCEPT ![i] = d]
     /\ heap' = st.heap
     /\ handlers' = st.handlers
     /\ lastDone' = IF d.state = "resolved" THEN Put(lastDone, d.event, i) ELSE lastDone

\* matches = RE_RUNNER.exec(event), tabulated over the event strings given.
Matches == [str \in EventStrings \cup HubStrings \cup SuffixStrings |-> RE_RUNNER_exec(str)]

\* The event and the runner name an event string selects: matches[1] and
\* matches[2], or the string itself and the default runner.
EventOf(str) == IF Matches[str] # <<>> THEN Matches[str][1] ELSE str
RunnerNameOf(str) == IF Matches[str] # <<>> THEN Matches[str][2] ELSE DEFAULT

\* The counter bumped only for an event that has handlers.
Increment_onlyWithHandlers(hs, event) ==
  IF hs[event].head # NoHandler THEN [hs EXCEPT ![event].handled = @ + 1] ELSE hs

\* ++handlers[HANDLED]
Increment(hs, event) == [hs EXCEPT ![event].handled = @ + 1]

\* emit(event, ...args)
EmitWithin(limit, str, args, throws) ==
  LET event == EventOf(str)
      name == RunnerNameOf(str)
      runner == RunnerLookup(runners, name)
  IN IF runner = "undefined"
     THEN /\ ret' = "unknown runner"
          /\ UNCHANGED <<runners, handlers, heap, dispatches, phase, subscribed, lastDone>>
     ELSE IF NotARunner(runner)
     THEN /\ Epoch(event) < limit
          /\ handlers' = Increment(IF event \in DOMAIN handlers THEN handlers
                                    ELSE Put(handlers, event, NewChain), event)
          /\ ret' = "[object Object]"
          /\ UNCHANGED <<runners, heap, dispatches, phase, subscribed, lastDone>>
     ELSE /\ Len(dispatches) < limit
          /\ LET candidates == IF event \in DOMAIN handlers /\ handlers[event].head # NoHandler
                               THEN Walk(heap, handlers[event].head) ELSE <<>>
                 hs0 == IF event \in DOMAIN handlers THEN handlers
                        ELSE Put(handlers, event, NewChain)
                 hs1 == Increment(hs0, event)
                 d == NewDispatch("emit", event, runner, candidates,
                                  hs1[event].handled, Arr(args), FALSE, NONE, NONE)
                 st == RunnerStart([d |-> d, heap |-> heap, handlers |-> hs1], throws)
             IN /\ Commit(Len(dispatches) + 1, st, TRUE)
                /\ ret' = IF st.d.state = "raised" THEN "thrown" ELSE "ok"
          /\ UNCHANGED <<runners, phase, subscribed>>

\* emit, as many calls of emit and reemit as the bound allows
Emit(str, args, throws) == EmitWithin(MaxDispatch, str, args, throws)

\* reemit's test without the senile flag.
ReemitAdds_ignoresSenile(h, handled, senile, context, callback) ==
  /\ ~(context # NONE /\ h.context # context)
  /\ ~(callback # NONE /\ h.callback # callback)
  /\ ~(h.handled = handled)

\* reemit's test of one handler: context and callback match when given, and
\* the handler's stamp differs from the chain's counter unless senile.
ReemitAdds(h, handled, senile, context, callback) ==
  /\ ~(context # NONE /\ h.context # context)
  /\ ~(callback # NONE /\ h.callback # callback)
  /\ ~(h.handled = handled /\ ~senile)

\* reemit(event, senile, context, callback); the hub's republish(event,
\* context, callback, senile) has the same body.
ReemitWithin(limit, str, senile, context, callback, throws) ==
  LET event == EventOf(str)
      name == RunnerNameOf(str)
      runner == RunnerLookup(runners, name)
  IN IF runner = "undefined"
     THEN /\ ret' = "unknown runner"
          /\ UNCHANGED <<runners, handlers, heap, dispatches, phase, subscribed, lastDone>>
     ELSE IF NotARunner(runner)
     THEN /\ handlers' = IF event \in DOMAIN handlers THEN handlers
                          ELSE Put(handlers, event, NewChain)
          /\ ret' = "[object Object]"
          /\ UNCHANGED <<runners, heap, dispatches, phase, subscribed, lastDone>>
     ELSE /\ Len(dispatches) < limit
          /\ LET hs0 == IF event \in DOMAIN handlers THEN handlers
                        ELSE Put(handlers, event, NewChain)
                 handled == hs0[event].handled
                 candidates ==
                   IF event \in DOMAIN handlers /\ handlers[event].head # NoHandler
                   THEN SelectSeq(Walk(heap, handlers[event].head),
                          LAMBDA h : ReemitAdds(heap[h], handled, senile, context, callback))
                   ELSE <<>>
                 d == NewDispatch("reemit", event, runner, candidates,
                                  handled, hs0[event].memory, senile, context, callback)
                 st == RunnerStart([d |-> d, heap |-> heap, handlers |-> hs0], throws)
             IN /\ Commit(Len(dispatches) + 1, st, TRUE)
                /\ ret' = IF st.d.state = "raised" THEN "thrown" ELSE "ok"
          /\ UNCHANGED <<runners, phase, subscribed>>

\* reemit, as many calls of emit and reemit as the bound allows
Reemit(str, senile, context, callback, throws) ==
  ReemitWithin(MaxDispatch, str, senile, context, callback, throws)

\* The value or future that handler h returned to activation i resolves to
\* result: when() runs next(result).
Resolve(i, h, result, throws) ==
  /\ i \in 1..Len(dispatches)
  /\ dispatches[i].state = "pending"
  /\ h \in dispatches[i].inflight
  /\ LET d0 == dispatches[i]
         k == Max({j \in 1..Len(d0.log) : d0.log[j].h = h})
         d == [d0 EXCEPT !.inflight = @ \ {h}, !.log[k].ret = result,
                         !.log[k].out = "resolved"]
     IN Commit(i, RunnerResume([d |-> d, heap |-> heap, handlers |-> handlers],
                               result, throws), FALSE)
  /\ UNCHANGED <<runners, phase, subscribed, ret>>

\* A rejection taken for a resolution with undefined: the runner goes on.
Reject_swallowed(i, h) ==
  /\ i \in 1..Len(dispatches)
  /\ dispatches[i].state = "pending"
  /\ h \in dispatches[i].inflight
  /\ LET d0 == dispatches[i]
         k == Max({j \in 1..Len(d0.log) : d0.log[j].h = h})
         d == [d0 EXCEPT !.inflight = @ \ {h}, !.log[k].out = "rejected"]
     IN Commit(i, RunnerResume([d |-> d, heap |-> heap, handlers |-> handlers],
                               UNDEFINED, FALSE), FALSE)
  /\ UNCHANGED <<runners, phase, subscribed, ret>>

\* A rejection that stores the aborted activation's arguments as memory.
Reject_storesMemory(i, h) ==
  /\ i \in 1..Len(dispatches)
  /\ dispatches[i].state = "pending"
  /\ h \in dispatches[i].inflight
  /\ dispatches' = [dispatches EXCEPT ![i].inflight = @ \ {h},
                                      ![i].log[Max({j \in 1..Len(dispatches[i].log) :
                                                      dispatches[i].log[j].h = h})].out = "rejected",
                                      ![i].state = "rejected",
                                      ![i].failure = [kind |-> "reject", h |-> h]]
  /\ handlers' = [handlers EXCEPT ![dispatches[i].event].memory = dispatches[i].args]
  /\ UNCHANGED <<runners, heap, phase, subscribed, lastDone, ret>>

\* The future that handler h returned to activation i rejects: when() has
\* no rejection handler, so the runner's future rejects with it.
Reject(i, h) ==
  /\ i \in 1..Len(dispatches)
  /\ dispatches[i].state = "pending"
  /\ h \in dispatches[i].inflight
  /\ dispatches' = [dispatches EXCEPT ![i].inflight = @ \ {h},
                                      ![i].log[Max({j \in 1..Len(dispatches[i].log) :
                                                      dispatches[i].log[j].h = h})].out = "rejected",
                                      ![i].state = "rejected",
                                      ![i].failure = [kind |-> "reject", h |-> h]]
  /\ UNCHANGED <<runners, handlers, heap, phase, subscribed, lastDone, ret>>

\* A component moves to another phase of its life cycle.
SetPhase(c, p) ==
  /\ phase[c] # p
  /\ phase' = [phase EXCEPT ![c] = p]
  /\ UNCHANGED <<runners, handlers, heap, dispatches, subscribed, lastDone, ret>>

\* ---------------------------------------------------------- specifications
InitCommon ==
  /\ handlers = <<>>
  /\ heap = <<>>
  /\ dispatches = <<>>
  /\ phase = [c \in Contexts |-> NoPhase]
  /\ subscribed = <<>>
  /\ lastDone = <<>>
  /\ ret = "ok"

\* An emitter: new EventEmitter()
Init == InitCommon /\ runners = EmitterRunners

\* The hub: Emitter.create(...) with the merged runner table
HubInit == InitCommon /\ runners = HubRunners

Calls(names, kinds, filters, strings, argLists, retVals) ==
  \/ \E e \in names, k \in kinds : On(e, k[1], k[2])
  \/ \E e \in names, k \in filters : Off(e, k[1], k[2])
  \/ \E s \in strings, a \in argLists, t \in BOOLEAN : Emit(s, a, t)
  \/ \E s \in strings, senile \in BOOLEAN, k \in filters, t \in BOOLEAN :
       Reemit(s, senile, k[1], k[2], t)
  \/ \E i \in 1..MaxDispatch, h \in 1..MaxHandlers, r \in retVals, t \in BOOLEAN :
       Resolve(i, h, r, t)
  \/ \E i \in 1..MaxDispatch, h \in 1..MaxHandlers : Reject(i, h)

Next == Calls(EventNames, HandlerKinds, Filters, EventStrings, ArgLists, {UNDEFINED, Num(5)})

HubNext ==
  \/ Calls(EventNames, HandlerKinds, {<<NONE, NONE>>}, HubStrings, {<<1>>}, RetVals)
  \/ \E c \in Contexts, p \in PhaseValues : SetPhase(c, p)

\* The emitter called with event strings of every kind of suffix, and on()
\* called without a callback too.
SuffixNext ==
  Calls(SuffixNames, {<<NONE, "g">>, <<"c1", NONE>>}, {<<NONE, NONE>>},
        SuffixStrings, {<<1>>}, {UNDEFINED})

\* Every runner: an emitter or the hub, called with the default runner and
\* with the sequence runner.
RunnersInit == InitCommon /\ runners \in {EmitterRunners, HubRunners}

RunnersNext ==
  \/ Calls(EventNames, {<<"c1", "f">>}, {<<NONE, NONE>>}, EventStrings, {<<1>>},
           {UNDEFINED, Num(5)})
  \/ \E c \in Contexts, p \in {NoPhase, STR_initialized} : SetPhase(c, p)

\* The future that the handler in flight of activation i returned settles.
Settle(i) ==
  \/ \E h \in 1..MaxHandlers, r \in {UNDEFINED, Num(5)}, t \in BOOLEAN : Resolve(i, h, r, t)
  \/ \E h \in 1..MaxHandlers : Reject(i, h)

RunnersSpec == RunnersInit /\ [][RunnersNext]_vars

\* Subscriptions and dispatches of one event on an emitter or the hub, the
\* futures that handlers return being settled sooner or later.
FairNext ==
  \/ On(STR_evt, "c1", "f")
  \/ \E t \in BOOLEAN : Emit(STR_evt, <<1>>, t)
  \/ \E senile, t \in BOOLEAN : Reemit(STR_evt, senile, NONE, NONE, t)
  \/ \E i \in 1..MaxDispatch : Settle(i)

FairSpec ==
  /\ RunnersInit /\ [][FairNext]_vars
  /\ \A i \in 1..MaxDispatch : WF_vars(Settle(i))

\* One event on an emitter, with room for a dispatch, a dispatch that fails
\* and the replay after it.
ChainedNext ==
  \/ On(STR_evt, "c1", "f")
  \/ \E a \in ArgLists, t \in BOOLEAN : EmitWithin(MaxChained, STR_evt, a, t)
  \/ \E senile, t \in BOOLEAN :
       ReemitWithin(MaxChained, STR_evt, senile, NONE, NONE, t)
  \/ \E i \in 1..MaxChained, h \in 1..MaxHandlers, t \in BOOLEAN :
       Resolve(i, h, UNDEFINED, t)
  \/ \E i \in 1..MaxChained, h \in 1..MaxHandlers : Reject(i, h)

ChainedSpec == Init /\ [][ChainedNext]_vars

Spec == Init /\ [][Next]_vars

SuffixSpec == Init /\ [][SuffixNext]_vars

HubSpec == HubInit /\ [][HubNext]_vars

\* ------------------------------------------------------------------ claims
Dispatches == {dispatches[i] : i \in 1..Len(dispatches)}

\* The handlers an activation invoked, in the order of the invocations.
Invoked(d) == [k \in 1..Len(d.log) |-> d.log[k].h]

IsPrefix(s, t) == Len(s) <= Len(t) /\ s = SubSeq(t, 1, Len(s))

\* C1: the handlers an emit invokes are the handlers registered when emit was
\* called, in subscription order: a prefix of them while the dispatch runs or
\* after it was aborted, all of them once its future has resolved; a handler
\* is invoked only after the value or future of the one before it has
\* settled, so at most one handler of a dispatch is in flight.
C1_SubscriptionOrderNoOverlap ==
  \A d \in Dispatches :
    d.op = "emit" =>
      /\ IsPrefix(Invoked(d), d.registered)
      /\ (d.state = "resolved" => Invoked(d) = d.registered)
      /\ Cardinality(d.inflight) <= 1
      /\ \A k \in 1..Len(d.log) :
           d.log[k].out = "pending" => k = Len(d.log) /\ d.inflight = {d.log[k].h}
      /\ (d.state = "pending" => d.inflight # {})

\* Two handlers were subscribed, and an emit invoked the first, waited for
\* its future, invoked the second and resolved.
C1_Witness ==
  \E d \in Dispatches :
    /\ d.op = "emit" /\ d.state = "resolved"
    /\ d.registered = <<1, 2>> /\ Invoked(d) = <<1, 2>>

\* C2: the candidates of a dispatch are fixed at the call: only handlers
\* registered at the call are invoked (none added by on() afterwards), a
\* candidate is invoked at its turn also when off() has removed it meanwhile,
\* and an emit's candidates are all the handlers registered at its call, so
\* earlier on() and off() calls show in it.
C2_SnapshotAtCall ==
  \A d \in Dispatches :
    /\ \A k \in 1..Len(d.log) : d.log[k].h \in Range(d.registered)
    /\ IsPrefix(Invoked(d), d.candidates)
    /\ (d.state = "resolved" => Invoked(d) = d.candidates)
    /\ (d.op = "emit" => d.candidates = d.registered)

\* An emit invoked a handler that off() had removed after the emit was
\* called, and a later emit, called after that off(), has no such candidate.
C2_Witness ==
  \E i, j \in 1..Len(dispatches) :
    /\ i < j
    /\ dispatches[i].op = "emit" /\ dispatches[i].state = "resolved"
    /\ \E k \in 1..Len(dispatches[i].log) :
         /\ ~dispatches[i].log[k].live
         /\ dispatches[i].log[k].h \notin Range(dispatches[j].candidates)
    /\ dispatches[j].op = "emit"

\* C3: when the future a handler returned rejects, the dispatch's future is
\* rejected with that handler's failure, that handler is the last one the
\* dispatch invoked, and the candidates before it were each invoked once.
C3_RejectionAborts ==
  \A d \in Dispatches :
    \A k \in 1..Len(d.log) :
      d.log[k].out = "rejected" =>
        /\ d.state = "rejected"
        /\ d.failure = [kind |-> "reject", h |-> d.log[k].h]
        /\ k = Len(d.log)
        /\ Invoked(d) = SubSeq(d.candidates, 1, k)
        /\ d.inflight = {}

\* The second of two candidates rejected after the first had resolved.
C3_Witness ==
  \E d \in Dispatches :
    /\ d.op = "emit" /\ d.state = "rejected"
    /\ Len(d.candidates) = 2 /\ Len(d.log) = 2
    /\ d.log[1].out = "resolved" /\ d.log[2].out = "rejected"


\* C4: a handler callback that throws, at whatever position of the candidate
\* list, makes emit return a future rejected with that failure, and no later
\* candidate is invoked.
C4_ThrowRejectsFuture ==
  \A d \in Dispatches :
    \A k \in 1..Len(d.log) :
      d.log[k].out = "threw" =>
        /\ d.state = "rejected"
        /\ d.failure = [kind |-> "throw", h |-> d.log[k].h]
        /\ k = Len(d.log)

\* The activation that the step under consideration starts, if it starts one.
Starts(op) ==
  /\ Len(dispatches') = Len(dispatches) + 1
  /\ dispatches'[Len(dispatches')].op = op
Started == dispatches'[Len(dispatches')]

\* A registered handler that reemit is to replay: its context and callback
\* are the ones asked for, when asked for, and its stamp differs from the
\* chain's epoch unless senile.
Eligible(h, event, senile, context, callback) ==
  /\ (context = NONE \/ heap[h].context = context)
  /\ (callback = NONE \/ heap[h].callback = callback)
  /\ (senile \/ heap[h].handled # Epoch(event))

C5_Call ==
  Starts("reemit") =>
    /\ Started.candidates =
         SelectSeq(Subs(Started.event),
                   LAMBDA h : Eligible(h, Started.event, Started.senile,
                                       Started.context, Started.callback))
    /\ Started.passed = peek(Started.event)
    /\ Started.handled = Epoch(Started.event)

C5_Run ==
  \A d \in Dispatches :
    d.op = "reemit" =>
      /\ IsPrefix(Invoked(d), d.candidates)
      /\ (d.state = "resolved" => Invoked(d) = d.candidates)
      /\ \A k \in 1..Len(d.log) : d.log[k].args = ApplyArguments(d.passed)

\* C5: the candidates of reemit(event, senile, context, callback) are, in
\* chain order, the registered handlers whose context and callback match
\* (absent matches all) and whose stamp differs from the chain's epoch, or
\* all the matching ones when senile; reemit invokes them in that order (all
\* of them once its future resolves), each with the chain's memorized
\* argument list.
C5_ReplayFiltering == []C5_Run /\ [][C5_Call]_vars

\* subscribe A, emit, subscribe B, reemit(false): the replay, run to its
\* end, invoked B alone, with the arguments of the emit.
C5_Witness ==
  \E d \in Dispatches :
    /\ d.op = "reemit" /\ ~d.senile /\ d.context = NONE /\ d.callback = NONE
    /\ d.state = "resolved"
    /\ d.registered = <<1, 2>> /\ Invoked(d) = <<2>>
    /\ heap[1].handled = d.handled
    /\ d.passed.t = "array" /\ d.log[1].args = d.passed.v

C6_Step ==
  \A e \in DOMAIN handlers' :
    handlers'[e].handled =
      Epoch(e) + (IF Starts("emit") /\ Started.event = e THEN 1 ELSE 0)

\* C6: the epoch counter of a chain is 0 when the chain is created, every
\* emit on the event that reaches a runner adds exactly 1 to it, whatever its
\* handlers do, and no other step changes it.
C6_EpochCounter == [][C6_Step]_vars

\* An emit whose handler failed and a replay after it: the epoch is 1.
C6_Witness ==
  /\ Len(dispatches) = 2
  /\ dispatches[1].op = "emit" /\ dispatches[1].state = "rejected"
  /\ dispatches[2].op = "reemit" /\ dispatches[2].log # <<>>
  /\ Epoch(dispatches[1].event) = 1

\* The activations of an event.
OnEvent(event) == {i \in 1..Len(dispatches) : dispatches[i].event = event}

\* C7 as stated: peek returns absent for an event never dispatched and, once
\* the futures of the event's dispatches have settled, the argument list
\* passed to the most recent dispatch or replay.
C7_PeekMostRecent ==
  \A e \in EventNames :
    IF OnEvent(e) = {} THEN peek(e) = UNDEFINED
    ELSE (\A i \in OnEvent(e) : dispatches[i].state \in {"resolved", "rejected"}) =>
           peek(e) = dispatches[Max(OnEvent(e))].passed

\* C7 amended: peek returns absent until a dispatch or replay of the event
\* has run through all of its candidates, and then the argument list of the
\* dispatch or replay that did so last.
C7_PeekLastCompleted ==
  \A e \in EventNames :
    peek(e) = IF LastDone(e) = 0 THEN UNDEFINED ELSE dispatches[LastDone(e)].passed

\* A completed emit followed by an emit with other arguments that a handler
\* failure aborted: peek still returns the arguments of the first.
C7_Witness ==
  /\ Len(dispatches) = 2
  /\ dispatches[1].op = "emit" /\ dispatches[1].state = "resolved"
  /\ dispatches[2].op = "emit" /\ dispatches[2].state = "rejected"
  /\ dispatches[1].passed # dispatches[2].passed
  /\ peek(dispatches[1].event) = dispatches[1].passed

\* The argument list a pipeline handler is to receive after a handler that
\* received args returned r: args again when r is undefined, the elements
\* of r when r is a list, r alone when r is any other value.
Threaded(args, r) ==
  IF r = UNDEFINED THEN args ELSE IF r.t = "array" THEN r.v ELSE <<r.v[1]>>

\* C8: in the pipeline runner each handler after the first receives the
\* argument list threaded from the handler before it, no dispatch fails for
\* a handler's returning a value that is not a list, and a dispatch that ran
\* to its end resolves with the final threaded argument list, a list.
C8_PipelineThreading ==
  \A d \in Dispatches :
    d.runner = "pipeline" =>
      /\ \A k \in 1..(Len(d.log) - 1) :
           d.log[k + 1].args = Threaded(d.log[k].args, d.log[k].ret)
      /\ d.failure.kind # "TypeError"
      /\ (d.state = "resolved" /\ d.log # <<>> =>
            d.args = Arr(Threaded(d.log[Len(d.log)].args, d.log[Len(d.log)].ret)))

\* The phases named for the hub's deferral, and the phases RE_PHASE matches.
ClaimedBlocked == {STR_initializing, STR_initialized, STR_finalizing, STR_finalized}
CodeBlocked == {STR_initialize, STR_initialized, STR_finalize, STR_finalized}

\* context[PHASE] of a handler's context, before the step.
PhaseOf(h) == IF heap[h].context = NONE THEN NoPhase ELSE phase[heap[h].context]

\* The handlers that activation i invokes, and passes over, in the step.
LogBefore(i) == IF i <= Len(dispatches) THEN Len(dispatches[i].log) ELSE 0
SkippedBefore(i) == IF i <= Len(dispatches) THEN Len(dispatches[i].skipped) ELSE 0
InvokedNow(i) ==
  {dispatches'[i].log[k].h : k \in (LogBefore(i) + 1)..Len(dispatches'[i].log)}
SkippedNow(i) ==
  {dispatches'[i].skipped[k] : k \in (SkippedBefore(i) + 1)..Len(dispatches'[i].skipped)}

C9_StepAsStated ==
  \A i \in 1..Len(dispatches') :
    /\ \A h \in InvokedNow(i) : PhaseOf(h) \notin ClaimedBlocked
    /\ \A h \in SkippedNow(i) : PhaseOf(h) \in ClaimedBlocked

\* C9 as stated: the hub passes over a candidate exactly when its context's
\* phase is initializing, initialized, finalizing or finalized.
C9_SkipsClaimedPhases == [][C9_StepAsStated]_vars

C9_Step ==
  \A i \in 1..Len(dispatches') :
    /\ \A h \in InvokedNow(i) : PhaseOf(h) \notin CodeBlocked
    /\ \A h \in SkippedNow(i) :
         /\ PhaseOf(h) \in CodeBlocked
         /\ heap'[h].handled = heap[h].handled

C9_Run ==
  /\ \A p \in PhaseNames : RE_PHASE_test(p) <=> p \in CodeBlocked
  /\ \A d \in Dispatches :
       /\ Range(d.skipped) \cap Range(Invoked(d)) = {}
       /\ (d.state = "resolved" =>
             Range(d.candidates) = Range(d.skipped) \cup Range(Invoked(d)))
       /\ \A k \in 1..(Len(d.log) - 1) :
            /\ d.log[k].ret.t # "number"
            /\ d.log[k + 1].args = Threaded(d.log[k].args, d.log[k].ret)

\* C9 amended: on the hub a candidate whose context's phase is initialize,
\* initialized, finalize or finalized when its turn comes is passed over: it
\* is not invoked, its stamp is left as it was and it adds nothing to what
\* the next handler receives, and the candidates after it are processed; a
\* candidate in any other phase, initializing and finalizing included, is
\* invoked.
C9_PhaseDeferral == []C9_Run /\ [][C9_Step]_vars

\* A publish passed over the first handler, invoked the second and ran to
\* its end; after the phase changed the next publish invoked the first.
C9_Witness ==
  /\ Len(dispatches) = 2
  /\ dispatches[1].op = "emit" /\ dispatches[1].state = "resolved"
  /\ dispatches[1].skipped = <<1>> /\ Invoked(dispatches[1]) = <<2>>
  /\ heap[2].handled = 1
  /\ dispatches[2].op = "emit" /\ dispatches[2].log # <<>>
  /\ dispatches[2].log[1].h = 1 /\ heap[1].handled = 2

\* A publish p that ran to its end, and the non-senile republish r of the
\* same event for all handlers that follows it, no other activation of the
\* event being pending when either was called.
Replays(p, r) ==
  /\ p < r
  /\ dispatches[p].op = "emit" /\ dispatches[p].state = "resolved"
  /\ dispatches[p].quiet
  /\ dispatches[r].op = "reemit" /\ dispatches[r].event = dispatches[p].event
  /\ ~dispatches[r].senile
  /\ dispatches[r].context = NONE /\ dispatches[r].callback = NONE
  /\ dispatches[r].quiet
  /\ \A j \in (p + 1)..(r - 1) : dispatches[j].event # dispatches[p].event

\* What C10 says of the candidates of the republish.
Deferred(dp, dr) ==
  /\ \A h \in Range(dp.skipped) :
       h \in Range(dr.registered) => h \in Range(dr.candidates)
  /\ Range(Invoked(dp)) \cap Range(dr.candidates) = {}
  /\ dr.passed = dp.args
  /\ (dr.state = "resolved" =>
        \A h \in Range(dp.skipped) \cap Range(dr.candidates) :
          h \in Range(Invoked(dr)) \cup Range(dr.skipped))

\* C10 as stated: the handlers a publish passed over are candidates of the
\* republish and the handlers it invoked are not; the republish invokes each
\* of the former with the memorized arguments.
C10_ReplayWithMemory ==
  \A p, r \in 1..Len(dispatches) :
    Replays(p, r) =>
      /\ Deferred(dispatches[p], dispatches[r])
      /\ \A k \in 1..Len(dispatches[r].log) :
           dispatches[r].log[k].h \in Range(dispatches[p].skipped) =>
             dispatches[r].log[k].args = ApplyArguments(dispatches[r].passed)

\* C10 amended: the handlers a publish passed over keep their stamps, so
\* they are candidates of the republish, and the handlers the publish
\* invoked are not; the republish invokes a candidate when it reaches it in
\* a phase that is not blocked, the first one it invokes with the memorized
\* arguments and, under the pipeline runner, each later one with the
\* arguments threaded from the handler invoked before it.
C10_ReplayOfDeferred ==
  \A p, r \in 1..Len(dispatches) :
    Replays(p, r) =>
      /\ Deferred(dispatches[p], dispatches[r])
      /\ \A k \in 1..Len(dispatches[r].log) :
           dispatches[r].log[k].args =
             IF k = 1 THEN ApplyArguments(dispatches[r].passed)
             ELSE Threaded(dispatches[r].log[k - 1].args, dispatches[r].log[k - 1].ret)

\* A publish passed over the first handler and invoked the second; after
\* the phase changed the republish invoked the first alone, with the
\* arguments the publish memorized.
C10_Witness ==
  /\ Len(dispatches) = 2 /\ Replays(1, 2)
  /\ dispatches[1].skipped = <<1>> /\ Invoked(dispatches[1]) = <<2>>
  /\ dispatches[2].state = "resolved"
  /\ dispatches[2].candidates = <<1>> /\ Invoked(dispatches[2]) = <<1>>
  /\ dispatches[2].log[1].args = dispatches[1].args.v

\* The colons of an event string.
Colons(str) == {i \in 1..Len(str) : str[i] = ":"}

Min(S) == CHOOSE x \in S : \A y \in S : x <= y

\* A step that is the call emit(str, ...) or reemit(str, ...): such a call
\* starts an activation or returns without one.
Dispatching(str) ==
  /\ \/ Len(dispatches') = Len(dispatches) + 1
     \/ dispatches' = dispatches /\ ret' \in {"unknown runner", "[object Object]"}
  /\ \/ \E t \in BOOLEAN : Emit(str, <<1>>, t)
     \/ \E senile, t \in BOOLEAN : Reemit(str, senile, NONE, NONE, t)

\* The event strings with one colon, each with the suffix after it.
Suffixed ==
  [str \in {x \in SuffixStrings : Cardinality(Colons(x)) = 1} |->
     SubSeq(str, Min(Colons(str)) + 1, Len(str))]

C11_Step ==
  \A str \in DOMAIN Suffixed :
    (Suffixed[str] \notin DOMAIN runners /\ Dispatching(str))
    => /\ ret' = "unknown runner"
       /\ UNCHANGED <<handlers, heap, dispatches>>

\* C11: an emit or reemit whose event string names, after its colon, a
\* runner that the runner table does not hold fails with the unknown-runner
\* error; it invokes no handler and changes nothing.
C11_UnknownRunner == [][C11_Step]_vars

\* Activation i is a reemit of an event on which emit was never called.
NeverDispatched(i) ==
  /\ dispatches[i].op = "reemit"
  /\ \A j \in 1..(i - 1) :
       dispatches[j].op = "emit" => dispatches[j].event # dispatches[i].event

\* C12: a reemit of an event that was never dispatched invokes no handler,
\* whatever on and off calls came before it, and runs at epoch 0.
C12_ReplayNothing ==
  \A i \in 1..Len(dispatches) :
    NeverDispatched(i) =>
      /\ dispatches[i].log = <<>>
      /\ dispatches[i].handled = 0
      /\ (\A j \in 1..Len(dispatches) : dispatches[j].op = "reemit")
           => Epoch(dispatches[i].event) = 0

\* The handlers of an event's chain, from head on; none without a chain.
Chain(hp, hs, event) ==
  IF event \in DOMAIN hs THEN Walk(hp, hs[event].head) ELSE <<>>

C13_Step ==
  \A e \in SuffixNames, c \in Contexts \cup {NONE}, cb \in Callbacks \cup {NONE} :
    On(e, c, cb) =>
      IF cb = NONE
      THEN /\ ret' = "no callback provided"
           /\ UNCHANGED <<handlers, heap>>
      ELSE LET new == Len(heap) + 1
           IN /\ ret' = "ok"
              /\ Len(heap') = new
              /\ heap'[new].callback = cb /\ heap'[new].context = c
              /\ heap'[new].handled = NoStamp
              /\ Chain(heap', handlers', e) = Append(Chain(heap, handlers, e), new)
              /\ handlers'[e].tail = new
              /\ handlers'[e].handled = Epoch(e)
              /\ handlers'[e].memory = peek(e)
              /\ DOMAIN handlers' = DOMAIN handlers \cup {e}
              /\ \A x \in DOMAIN handlers \ {e} : handlers'[x] = handlers[x]
              /\ \A h \in 1..Len(heap) :
                   /\ heap'[h].callback = heap[h].callback
                   /\ heap'[h].context = heap[h].context
                   /\ heap'[h].handled = heap[h].handled

\* C13: on() without a callback fails with the missing-callback error and
\* leaves chains and handlers as they were; with a callback it adds exactly
\* one handler, unstamped, at the tail of the event's chain, which it
\* creates at epoch 0 when the event has none, and changes nothing else.
C13_OnAppends == [][C13_Step]_vars

\* Two handlers were subscribed to an event, and the on() without a callback
\* that followed failed.
C13_Witness ==
  /\ ret = "no callback provided"
  /\ \E e \in DOMAIN handlers :
       /\ Chain(heap, handlers, e) = <<1, 2>>
       /\ handlers[e].tail = 2

\* What off(event, context, callback) is to remove: the handlers whose
\* context is the given one, when one is given, and whose callback is the
\* given one, when one is given.
Removes(h, context, callback) ==
  /\ (context = NONE \/ heap[h].context = context)
  /\ (callback = NONE \/ heap[h].callback = callback)

C14_Step ==
  \A e \in EventNames, k \in Filters :
    Off(e, k[1], k[2]) =>
      /\ Chain(heap', handlers', e) =
           SelectSeq(Chain(heap, handlers, e), LAMBDA h : ~Removes(h, k[1], k[2]))
      /\ \A h \in 1..Len(heap) :
           /\ heap'[h].callback = heap[h].callback
           /\ heap'[h].context = heap[h].context

C14_Chain ==
  \A e \in DOMAIN handlers :
    /\ Chain(heap, handlers, e) = Subs(e)
    /\ handlers[e].tail =
         IF Subs(e) = <<>> THEN NoHandler ELSE Subs(e)[Len(Subs(e))]
    /\ \A k \in 1..(Len(Subs(e)) - 1) : Subs(e)[k] < Subs(e)[k + 1]

AllSucceeded(d) ==
  /\ Invoked(d) = d.candidates
  /\ \A k \in 1..Len(d.log) : d.log[k].out = "resolved"

C15_Outcome ==
  \A d \in Dispatches :
    /\ (AllSucceeded(d) => d.state = "resolved")
    /\ (\E k \in 1..Len(d.log) : d.log[k].out = "rejected") => d.state = "rejected"
    /\ (d.state = "pending" => d.inflight # {})

\* C15: when the futures that handlers return settle, the future that emit
\* or reemit returned settles; it is resolved once every candidate was
\* invoked and succeeded, and rejected as soon as a handler's future rejects.
C15_Settles ==
  /\ []C15_Outcome
  /\ \A i \in 1..MaxDispatch :
       (i <= Len(dispatches) /\ dispatches[i].state = "pending")
         ~> (i <= Len(dispatches) /\ dispatches[i].state \in {"resolved", "rejected"})

\* One dispatch invoked its two candidates and resolved, another was
\* rejected by its first handler.
C15_Witness ==
  \E d, x \in Dispatches :
    /\ d.state = "resolved" /\ Len(d.candidates) = 2 /\ AllSucceeded(d)
    /\ x.state = "rejected" /\ Len(x.log) = 1 /\ x.log[1].out = "rejected"

C16_Step ==
  /\ DOMAIN handlers \subseteq DOMAIN handlers'
  /\ \A e \in EventNames, k \in Filters :
       Off(e, k[1], k[2]) =>
         \A x \in DOMAIN handlers :
           /\ handlers'[x].handled = handlers[x].handled
           /\ handlers'[x].memory = handlers[x].memory
  /\ Starts("emit") => Started.handled = Epoch(Started.event) + 1

\* C16: no step removes an event's entry from the registry; off() leaves
\* the epoch counter and the memory of every chain as they were, also when
\* it removes the last handler, so peek returns the same memory after it
\* and the next emit runs at the epoch after the retained one.
C16_EntriesKept == [][C16_Step]_vars

\* An emit ran to its end, off() removed every handler, and the chain, now
\* empty, still has the emit's memory; the next emit ran at epoch 2.
C16_Witness ==
  /\ Len(dispatches) = 2
  /\ dispatches[1].op = "emit" /\ dispatches[1].state = "resolved"
  /\ dispatches[1].log # <<>>
  /\ dispatches[2].op = "emit" /\ dispatches[2].candidates = <<>>
  /\ dispatches[2].handled = 2
  /\ handlers[STR_evt].head = NoHandler /\ handlers[STR_evt].handled = 2
  /\ peek(STR_evt) = dispatches[2].passed

C17_Step ==
  \A i \in 1..Len(dispatches') :
    /\ \A h \in InvokedNow(i) :
         heap'[h].handled = handlers'[dispatches'[i].event].handled
    /\ (i > Len(dispatches) /\ dispatches'[i].op = "emit") =>
         /\ dispatches'[i].handled = Epoch(dispatches'[i].event) + 1
         /\ dispatches'[i].candidates = Chain(heap, handlers, dispatches'[i].event)

\* C17: an emit called while a dispatch of the same event is running takes
\* its candidates and a new epoch of its own, and every handler that a
\* dispatch invokes, the outer one after the nested emit included, is
\* stamped with the epoch counter of the chain as it then is.
C17_NestedEpochVisible == [][C17_Step]_vars

\* Activation i runs out of candidates in the step.
Completes(i) ==
  /\ dispatches'[i].state = "resolved"
  /\ (i <= Len(dispatches) => dispatches[i].state = "pending")

C18_Step ==
  /\ \A i \in 1..Len(dispatches') :
       Completes(i) => handlers'[dispatches'[i].event].memory = dispatches'[i].passed
  /\ \A e \in DOMAIN handlers :
       handlers'[e].memory # handlers[e].memory =>
         \E i \in 1..Len(dispatches') : Completes(i) /\ dispatches'[i].event = e

\* C18: the memory of a chain is written by each dispatch or replay at the
\* moment it runs out of candidates, with its own argument list, and by
\* nothing else: of two dispatches in flight together the one that completes
\* last leaves its arguments as memory, whichever was called first and
\* whatever their epochs.
C18_LastWriterWins == [][C18_Step]_vars

\* Two emits of an event overlapped; the one called first, of the older
\* epoch, completed last and its arguments are the memory.
C18_Witness ==
  /\ Len(dispatches) = 2
  /\ dispatches[1].op = "emit" /\ dispatches[2].op = "emit"
  /\ dispatches[1].event = dispatches[2].event
  /\ ~dispatches[2].quiet
  /\ dispatches[1].state = "resolved" /\ dispatches[2].state = "resolved"
  /\ dispatches[1].log # <<>> /\ dispatches[2].log # <<>>
  /\ LastDone(dispatches[1].event) = 1
  /\ dispatches[1].handled < dispatches[2].handled
  /\ dispatches[1].passed # dispatches[2].passed
  /\ peek(dispatches[1].event) = dispatches[1].passed

\* What a call emit(str, ...) or reemit(str, ...) does when str stands for
\* the chain event and the runner named name: the lookup of the name fails,
\* or the chain exists afterwards and the runner found is started on it.
DispatchesAs(event, name) ==
  LET runner == RunnerLookup(runners, name)
  IN IF runner = "undefined"
     THEN ret' = "unknown runner" /\ UNCHANGED handlers
     ELSE /\ event \in DOMAIN handlers'
          /\ \A x \in DOMAIN handlers' \ DOMAIN handlers : x = event
          /\ IF NotARunner(runner) THEN ret' = "[object Object]"
             ELSE /\ Len(dispatches') = Len(dispatches) + 1
                  /\ Started.event = event /\ Started.runner = runner

\* The event strings that hold a colon, each with the part before and the
\* part after its first colon.
AtFirstColon ==
  [str \in {x \in SuffixStrings : Colons(x) # {}} |->
     <<SubSeq(str, 1, Min(Colons(str)) - 1),
       SubSeq(str, Min(Colons(str)) + 1, Len(str))>>]

C19_StepFirstColon ==
  \A str \in DOMAIN AtFirstColon :
    DispatchesAs(AtFirstColon[str][1], AtFirstColon[str][2]) \/ ~Dispatching(str)

\* C19 as stated: an event string with a colon is split at its first colon,
\* the part before it being the chain dispatched and the part after it the
\* runner looked up.
C19_SplitAtFirstColon == [][C19_StepFirstColon]_vars

\* The colons at which an event string can be cut: not the first character,
\* and followed by a word character.
Cuts(str) ==
  {i \in Colons(str) : i > 1 /\ i < Len(str) /\ str[i + 1] \in WordChars}

\* The word characters that follow position i, up to the first other one.
WordAfter(str, i) ==
  LET stops == {j \in (i + 1)..Len(str) : str[j] \notin WordChars}
  IN SubSeq(str, i + 1, IF stops = {} THEN Len(str) ELSE Min(stops) - 1)

\* Every event string with the chain and the runner name it stands for.
AtLastCut ==
  [str \in SuffixStrings |->
     IF Cuts(str) = {} THEN <<str, DEFAULT>>
     ELSE <<SubSeq(str, 1, Max(Cuts(str)) - 1), WordAfter(str, Max(Cuts(str)))>>]

C19_StepLastColon ==
  \A str \in SuffixStrings :
    DispatchesAs(AtLastCut[str][1], AtLastCut[str][2]) \/ ~Dispatching(str)

\* C19 amended: an event string is cut at its last colon that has a
\* character before it and a word character after it: the part before that
\* colon is the chain dispatched, and the word characters that follow the
\* colon, up to the first other character, name the runner looked up; a
\* string without such a colon is the chain's name whole and is dispatched
\* with the default runner.
C19_SplitAtLastColon == [][C19_StepLastColon]_vars

\* A handler subscribed to the event "e:vt" was invoked: by a dispatch of
\* "e:vt:sequence", the one string that reaches this chain.
C19_Witness ==
  \E d \in Dispatches :
    /\ d.event = STR_e_vt /\ d.runner = "sequence"
    /\ d.log # <<>> /\ d.state = "resolved"

SequenceRunners == {"sequence", "hub_sequence"}

C20_Run ==
  \A d \in Dispatches :
    d.runner \in SequenceRunners =>
      /\ d.args = d.passed
      /\ \A k \in 1..Len(d.log) : d.log[k].args = ApplyArguments(d.passed)
      /\ Len(d.results) = Cardinality({k \in 1..Len(d.log) : d.log[k].out = "resolved"})
      /\ d.results = [k \in 1..Len(d.results) |-> d.log[k].ret]
      /\ (d.state = "resolved" => Len(d.results) = Len(d.log))

C20_Step ==
  \A i \in 1..Len(dispatches') :
    (dispatches'[i].runner \in SequenceRunners /\ Completes(i)) =>
      /\ handlers'[dispatches'[i].event].memory = dispatches'[i].passed
      /\ dispatches'[i].candidatesCount = Len(dispatches'[i].candidates) + 1

\* C20: the sequence runners, the emitter's and the hub's, invoke every
\* handler with the argument list the dispatch was given; the results hold,
\* in the order of the invocations, the result of each handler whose value
\* has arrived and nothing else, so neither the initial step nor a candidate
\* passed over adds an entry, and the future resolves with one result for
\* each handler invoked; running out of candidates stores the argument list
\* given as memory.
C20_SequenceResults == []C20_Run /\ [][C20_Step]_vars

\* On the hub a sequence dispatch passed over both candidates and resolved
\* with no result, and another invoked both and resolved with their two
\* results.
C20_Witness ==
  \E d, x \in Dispatches :
    /\ d.runner = "hub_sequence" /\ d.state = "resolved"
    /\ d.skipped = <<1, 2>> /\ d.results = <<>>
    /\ x.runner = "hub_sequence" /\ x.state = "resolved"
    /\ Invoked(x) = <<1, 2>> /\ x.results = <<Num(5), UNDEFINED>>
    /\ peek(x.event) = x.passed

\* Activation p is an emit that a handler failure aborted, called while no
\* activation of its event was pending.
Aborted(p) ==
  /\ dispatches[p].op = "emit"
  /\ dispatches[p].state \in {"rejected", "thrown"}
  /\ dispatches[p].quiet

\* The candidates that the aborted emit reached: up to the failing one.
Reached(d) == Range(SubSeq(d.candidates, 1, d.candidatesCount))

\* Activation p is the last activation of its event so far.
Latest(p) ==
  \A j \in (p + 1)..Len(dispatches) : dispatches[j].event # dispatches[p].event

\* The memory that the activations completed so far have left.
Memorized(event) ==
  IF LastDone(event) = 0 THEN UNDEFINED ELSE dispatches[LastDone(event)].passed

\* Activation r is the non-senile reemit for all handlers that follows the
\* aborted emit p with no activation of the event between them.
ReplaysAborted(p, r) ==
  /\ p < r /\ Aborted(p)
  /\ dispatches[r].op = "reemit" /\ dispatches[r].event = dispatches[p].event
  /\ ~dispatches[r].senile
  /\ dispatches[r].context = NONE /\ dispatches[r].callback = NONE
  /\ dispatches[r].quiet
  /\ \A j \in (p + 1)..(r - 1) : dispatches[j].event # dispatches[p].event

C21_Run ==
  \A p \in 1..Len(dispatches) :
    Aborted(p) =>
      /\ dispatches[p].handled >= 1
      /\ dispatches[p].candidatesCount \in 1..Len(dispatches[p].candidates)
      /\ dispatches[p].failure.h = dispatches[p].candidates[dispatches[p].candidatesCount]
      /\ Latest(p) =>
           /\ Epoch(dispatches[p].event) = dispatches[p].handled
           /\ LastDone(dispatches[p].event) < p
           /\ peek(dispatches[p].event) = Memorized(dispatches[p].event)
           /\ \A h \in Reached(dispatches[p]) : heap[h].handled = dispatches[p].handled
      /\ \A r \in 1..Len(dispatches) :
           ReplaysAborted(p, r) =>
             /\ dispatches[r].handled = dispatches[p].handled
             /\ dispatches[r].candidates =
                  SelectSeq(dispatches[r].registered,
                            LAMBDA h : h \notin Reached(dispatches[p]))
             /\ IsPrefix(Invoked(dispatches[r]), dispatches[r].candidates)
             /\ (dispatches[r].state = "resolved" =>
                   Invoked(dispatches[r]) = dispatches[r].candidates)
             /\ \A k \in 1..Len(dispatches[r].log) :
                  dispatches[r].log[k].args = ApplyArguments(dispatches[r].passed)

C21_Call ==
  \A p \in 1..Len(dispatches) :
    (Aborted(p) /\ Latest(p) /\ Starts("reemit")
       /\ Started.event = dispatches[p].event) =>
      /\ Started.passed = Memorized(Started.event)
      /\ LastDone(Started.event) < p

\* C21: an emit that a handler failure aborts leaves the memory as the
\* activations completed before it left it, although the epoch counter is
\* the emit's new epoch and every candidate up to the failing one is
\* stamped with it; the non-senile reemit that follows has as candidates
\* exactly the registered handlers that the aborted emit did not reach, and
\* invokes them in order with the arguments of the last dispatch completed
\* before the aborted one, with none when there was no such dispatch.
C21_AbortKeepsMemory == []C21_Run /\ [][C21_Call]_vars

\* An emit completed; a second emit, with other arguments, was aborted by
\* its first handler; the reemit after it invoked the second handler alone,
\* with the arguments of the first emit.
C21_Witness ==
  /\ Len(dispatches) = 3 /\ ReplaysAborted(2, 3)
  /\ dispatches[1].op = "emit" /\ dispatches[1].state = "resolved"
  /\ dispatches[2].candidates = <<1, 2>> /\ Invoked(dispatches[2]) = <<1>>
  /\ dispatches[2].state = "rejected"
  /\ dispatches[1].passed # dispatches[2].passed
  /\ dispatches[3].state = "resolved" /\ Invoked(dispatches[3]) = <<2>>
  /\ dispatches[3].log[1].args = dispatches[1].passed.v
  /\ peek(STR_evt) = dispatches[1].passed
  /\ heap[1].handled = 2 /\ Epoch(STR_evt) = 2

\* Handler h belongs to the chain of event e: it is subscribed to it, or was
\* when an activation of it was called.
OfChain(h, e) ==
  \/ h \in Range(Subs(e))
  \/ \E d \in Dispatches : d.event = e /\ h \in Range(d.registered)

\* C22: in every reachable state a handler's stamp is absent or at most the
\* epoch counter of the handler's chain, and a handler that no activation
\* has invoked has no stamp.
C22_StampWithinEpoch ==
  \A h \in 1..Len(heap) :
    /\ heap[h].handled # NoStamp =>
         \A e \in DOMAIN handlers :
           OfChain(h, e) => heap[h].handled <= handlers[e].handled
    /\ (\A d \in Dispatches : h \notin Range(Invoked(d))) =>
         heap[h].handled = NoStamp

====
